---- MODULE Spec2Model ----
(***************************************************************************)
(* Model of wellWQ.py, the Streamlit script of the ground-water quality   *)
(* analysing platform: load_data, the post-load setup, filter_by_year and  *)
(* the three menu branches (Descriptive Statistics, Visualizations,        *)
(* Correlation Analysis).                                                  *)
(*                                                                         *)
(* Representation.  A nullable cell is a sequence of length 0 or 1:        *)
(* << >> is NaN / NaT / None and <<v>> is the value v.  A text cell that   *)
(* is missing (an empty CSV cell, read as NaN) is the empty string.        *)
(* Real-valued statistics are kept exact as integer fractions.             *)
(***************************************************************************)
EXTENDS Integers, Sequences, FiniteSets, TLC

VARIABLES file, pc, df, args, filtered, ran, out, results, corr

vars == <<file, pc, df, args, filtered, ran, out, results, corr>>

\* Largest number of data rows in an uploaded table.
MaxRows == 2

\* Largest number of statistics selected at once.
MaxStats == 2

NA == ""

None == << >>

Some(v) == <<v>>

IsNull(c) == c = << >>

NotNull(c) == c # << >>

Val(c) == c[1]

(***************************************************************************)
(* The uploaded file.                                                      *)
(***************************************************************************)

\* A Date cell as text: "ymd" is a text of the form YYYY-MM-DD with the
\* given numbers, "empty" an empty cell, "garbage" any other text.
DateCell(t, y, m, d) == [text |-> t, y |-> y, m |-> m, d |-> d]

EmptyDate == DateCell("empty", 0, 0, 0)

GarbageDate == DateCell("garbage", 0, 0, 0)

Ymd(y, m, d) == DateCell("ymd", y, m, d)

RawRow(b, dt, s, ec, tds) ==
    [Basin |-> b, Date |-> dt, Season |-> s, EC |-> ec, TDS |-> tds]

Cells == {None, Some(1), Some(2)}

Seasons == {"Pre-Monsoon", "Post-Monsoon"}

\* Rows that exercise the date parser.
LoadRows ==
    { RawRow("Vaigai", dt, "Pre-Monsoon", Some(1), None) :
        dt \in {EmptyDate, GarbageDate, Ymd(2015, 2, 28), Ymd(2015, 2, 29),
                Ymd(2016, 2, 29), Ymd(2016, 13, 1)} }

\* Rows that exercise the basin / year filter.
FilterRows ==
    { RawRow(b, dt, "Pre-Monsoon", Some(1), None) :
        b \in {"Vaigai", "Cauvery"},
        dt \in {EmptyDate, Ymd(2015, 6, 1), Ymd(2016, 6, 1)} }

\* Rows that exercise grouping and the statistics of one parameter.
AggRows ==
    { RawRow("Vaigai", dt, s, ec, None) :
        dt \in {Ymd(2015, 6, 1), Ymd(2016, 6, 1)},
        s \in Seasons,
        ec \in Cells }
    \cup { RawRow("Vaigai", Ymd(2015, 6, 1), NA, Some(1), None) }

\* Rows that exercise the complete-case correlation of two parameters.
CorrRows ==
    { RawRow("Vaigai", Ymd(2015, 6, 1), "Pre-Monsoon", ec, tds) :
        ec \in Cells, tds \in {None, Some(2), Some(4)} }

SeqsUpTo(S, n) == UNION { [1..k -> S] : k \in 0..n }

File(ext, hasBasin, hasDate, params, rows) ==
    [ext |-> ext, hasBasin |-> hasBasin, hasDate |-> hasDate,
     params |-> params, rows |-> rows]

\* The uploads of the model: well-formed CSV tables of each row family,
\* and single-row tables with an odd extension or a missing column.
Files ==
    { File("csv", TRUE, TRUE, <<"EC">>, rows) :
        rows \in SeqsUpTo(LoadRows, MaxRows) \cup SeqsUpTo(FilterRows, MaxRows)
                 \cup SeqsUpTo(AggRows, MaxRows) }
    \cup
    { File("csv", TRUE, TRUE, <<"EC", "TDS">>, rows) :
        rows \in SeqsUpTo(CorrRows, MaxRows) }
    \cup
    { File(ext, hb, hd, <<"EC">>, rows) :
        ext \in {"csv", "xlsx", "CSV"}, hb \in BOOLEAN, hd \in BOOLEAN,
        rows \in SeqsUpTo(LoadRows, 1) }

(***************************************************************************)
(* load_data                                                               *)
(***************************************************************************)

IsLeap(y) == (y % 4 = 0 /\ y % 100 # 0) \/ y % 400 = 0

DaysInMonth(y, m) ==
    IF m = 2 THEN (IF IsLeap(y) THEN 29 ELSE 28)
    ELSE IF m \in {4, 6, 9, 11} THEN 30 ELSE 31

\* Mutant of ToDatetime: the text is split into numbers but never checked
\* against the calendar.
ToDatetimeUnchecked(cell) ==
    IF cell.text = "ymd"
    THEN Some([y |-> cell.y, m |-> cell.m, d |-> cell.d])
    ELSE None

\* pd.to_datetime(..., errors='coerce') on one cell: a calendar date, or
\* NaT for an empty cell and for any text that is not a valid date.
ToDatetime(cell) ==
    IF /\ cell.text = "ymd"
       /\ cell.m \in 1..12
       /\ cell.d \in 1..DaysInMonth(cell.y, cell.m)
    THEN Some([y |-> cell.y, m |-> cell.m, d |-> cell.d])
    ELSE None

\* .dt.year on one cell.
DtYear(date) == IF IsNull(date) THEN None ELSE Some(Val(date).y)

\* One row of the data frame after lines 63-64; idx is the row label.
LoadRow(raw, i) ==
    LET date == ToDatetime(raw.Date)
    IN  [idx |-> i, Basin |-> raw.Basin, Date |-> date, Year |-> DtYear(date),
         Season |-> raw.Season, EC |-> raw.EC, TDS |-> raw.TDS]

\* The Year column is float when it holds a NaN and integer otherwise.
YearDtype(rows) ==
    IF \E i \in 1..Len(rows) : IsNull(rows[i].Year) THEN "float" ELSE "int"

Frame(rows, dtype) == [rows |-> rows, yearDtype |-> dtype]

SupportedExt(ext) == ext \in {"csv", "xls", "xlsx"}

\* load_data(file): "unsupported" (returns None), "KeyError" (no Date
\* column, raised at line 63) or "ok" with the data frame.
LoadData(f) ==
    IF ~SupportedExt(f.ext) THEN [status |-> "unsupported", df |-> None]
    ELSE IF ~f.hasDate THEN [status |-> "KeyError", df |-> None]
    ELSE LET rows == [i \in 1..Len(f.rows) |-> LoadRow(f.rows[i], i)]
         IN  [status |-> "ok", df |-> Some(Frame(rows, YearDtype(rows)))]

(***************************************************************************)
(* Post-load setup (lines 87-92)                                           *)
(***************************************************************************)

Range(s) == { s[i] : i \in 1..Len(s) }

\* df['Basin'].dropna().unique()
Basins(d) == { r.Basin : r \in Range(d.rows) } \ {NA}

\* df['Year'].dropna().unique(), as integers
Years(d) == { Val(r.Year) : r \in { q \in Range(d.rows) : NotNull(q.Year) } }

SetMin(S) == CHOOSE x \in S : \A y \in S : x <= y

SetMax(S) == CHOOSE x \in S : \A y \in S : y <= x

exclude_cols == {"OBJECTID_12", "Latitude", "Longitude", "Year"}

\* The numeric columns of the file other than exclude_cols.
Parameters(f) == SelectSeq(f.params, LAMBDA p : p \notin exclude_cols)

Get(r, p) == IF p = "EC" THEN r.EC ELSE r.TDS

(***************************************************************************)
(* Query filter                                                            *)
(***************************************************************************)

\* df[df['Basin'] == basin]
FilterBasin(d, basin) ==
    Frame(SelectSeq(d.rows, LAMBDA r : r.Basin = basin), d.yearDtype)

\* Mutant of filter_by_year: the upper bound is exclusive.
filter_by_year_exclusive(d, lo, hi) ==
    Frame(SelectSeq(d.rows, LAMBDA r : /\ NotNull(r.Year)
                                       /\ Val(r.Year) >= lo
                                       /\ Val(r.Year) < hi),
          d.yearDtype)

\* A comparison with NaN is False.
filter_by_year(d, lo, hi) ==
    Frame(SelectSeq(d.rows, LAMBDA r : /\ NotNull(r.Year)
                                       /\ Val(r.Year) >= lo
                                       /\ Val(r.Year) <= hi),
          d.yearDtype)

QueryFilter(d, basin, lo, hi) == filter_by_year(FilterBasin(d, basin), lo, hi)

(***************************************************************************)
(* Aggregator: filtered.groupby(['Year', 'Season'])[param].agg(stat)       *)
(***************************************************************************)

\* The code points of a season name; Python orders strings by them.
Ord(s) ==
    CASE s = "Pre-Monsoon"  -> <<80, 114, 101, 45, 77, 111, 110, 115, 111, 111, 110>>
      [] s = "Post-Monsoon" -> <<80, 111, 115, 116, 45, 77, 111, 110, 115, 111, 111, 110>>
      [] OTHER -> << >>

RECURSIVE SeqLess(_, _)
SeqLess(a, b) ==
    IF b = << >> THEN FALSE
    ELSE IF a = << >> THEN TRUE
    ELSE IF Head(a) # Head(b) THEN Head(a) < Head(b)
    ELSE SeqLess(Tail(a), Tail(b))

StrLess(s, t) == SeqLess(Ord(s), Ord(t))

Key(y, s) == [Year |-> y, Season |-> s]

KeyLess(a, b) ==
    \/ a.Year < b.Year
    \/ a.Year = b.Year /\ StrLess(a.Season, b.Season)

\* The group keys: groupby drops the rows whose key holds a NaN
\* (dropna=True is the default).
GroupKeys(rows) ==
    { Key(Val(r.Year), r.Season) :
        r \in { q \in Range(rows) : NotNull(q.Year) /\ q.Season # NA } }

RECURSIVE SortKeys(_)
SortKeys(K) ==
    IF K = {} THEN << >>
    ELSE LET k == CHOOSE x \in K : \A y \in K \ {x} : KeyLess(x, y)
         IN  <<k>> \o SortKeys(K \ {k})

RECURSIVE FirstSeenKeys(_, _)
FirstSeenKeys(rows, seen) ==
    IF rows = << >> THEN << >>
    ELSE LET r == Head(rows)
             k == Key(Val(r.Year), r.Season)
         IN  IF IsNull(r.Year) \/ r.Season = NA \/ k \in seen
             THEN FirstSeenKeys(Tail(rows), seen)
             ELSE <<k>> \o FirstSeenKeys(Tail(rows), seen \cup {k})

\* Mutant of GroupOrder: groupby(..., sort=False), the keys in the order
\* in which they first appear.
GroupOrderFirstSeen(rows) == FirstSeenKeys(rows, {})

\* groupby sorts the group keys (sort=True is the default).
GroupOrder(rows) == SortKeys(GroupKeys(rows))

\* The non-null values of param in the group k, in row order.
GroupValues(rows, param, k) ==
    LET in == SelectSeq(rows, LAMBDA r : /\ NotNull(r.Year)
                                          /\ Val(r.Year) = k.Year
                                          /\ r.Season = k.Season
                                          /\ NotNull(Get(r, param)))
    IN  [i \in 1..Len(in) |-> Val(Get(in[i], param))]

RECURSIVE Sum(_)
Sum(s) == IF s = << >> THEN 0 ELSE Head(s) + Sum(Tail(s))

SumSq(s) == Sum([i \in 1..Len(s) |-> s[i] * s[i]])

Frac(n, d) == [num |-> n, den |-> d]

\* Mutant of StatCount: the number of distinct values (nunique).
StatCountDistinct(v) == Cardinality(Range(v))

StatCount(v) == Len(v)

StatMean(v) == IF v = << >> THEN None ELSE Some(Frac(Sum(v), Len(v)))

StatMin(v) == IF v = << >> THEN None ELSE Some(SetMin(Range(v)))

StatMax(v) == IF v = << >> THEN None ELSE Some(SetMax(Range(v)))

StatMedian(v) ==
    LET s == SortSeq(v, LAMBDA a, b : a < b)
        n == Len(v)
    IN  IF n = 0 THEN None
        ELSE IF n % 2 = 1 THEN Some(Frac(s[(n + 1) \div 2], 1))
        ELSE Some(Frac(s[n \div 2] + s[n \div 2 + 1], 2))

\* The sample variance (ddof = 1) whose square root std reports.
StatStd(v) ==
    LET n == Len(v)
    IN  IF n < 2 THEN None
        ELSE Some(Frac(n * SumSq(v) - Sum(v) * Sum(v), n * (n - 1)))

StatValue(name, v) ==
    CASE name = "count"  -> StatCount(v)
      [] name = "mean"   -> StatMean(v)
      [] name = "median" -> StatMedian(v)
      [] name = "min"    -> StatMin(v)
      [] name = "max"    -> StatMax(v)
      [] name = "std"    -> StatStd(v)

\* The names agg resolves (methods of the grouped column); any other
\* name raises AttributeError.
AggMethods == {"mean", "median", "min", "max", "std", "count"}

\* Mutant of StatOptions: the multiselect also offers "avg".
StatOptionsAvg == {"mean", "median", "min", "max", "std", "count", "avg"}

\* The options of the "Select Statistics" multiselect.
StatOptions == {"mean", "median", "min", "max", "std", "count"}

\* What the multiselect can return (the order of selection, which only
\* orders the columns of the table, is left out).
StatChoices == { S \in SUBSET StatOptions : Cardinality(S) <= MaxStats }

\* Mutant of EmptyAgg: an empty list of functions is refused.
EmptyAggRaises == [status |-> "ValueError", table |-> << >>]

\* agg([]).reset_index(): no function gives a frame without columns and
\* without rows; nothing is raised.
EmptyAgg == [status |-> "ok", table |-> << >>]

\* .agg(stat).reset_index(): one row per group key, in group order, with
\* one column per requested statistic.  An empty list of statistics
\* gives an empty frame: no column and no row.
Aggregate(rows, param, stat) ==
    IF ~(stat \subseteq AggMethods)
    THEN [status |-> "AttributeError", table |-> << >>]
    ELSE IF stat = {} THEN EmptyAgg
    ELSE LET keys == GroupOrder(rows)
         IN  [status |-> "ok",
              table |-> [i \in 1..Len(keys) |->
                  [Year |-> keys[i].Year, Season |-> keys[i].Season,
                   cols |-> [s \in stat |->
                       StatValue(s, GroupValues(rows, param, keys[i]))]]]]

(***************************************************************************)
(* Correlation engine: filtered[parameters].dropna().corr(method)          *)
(***************************************************************************)

\* dropna(): the rows without a NaN in any parameter column.
DropNa(rows, params) ==
    SelectSeq(rows, LAMBDA r : \A p \in Range(params) : NotNull(Get(r, p)))

Column(rows, p) == [i \in 1..Len(rows) |-> Val(Get(rows[i], p))]

\* Twice the average rank of each value (ties share the average rank).
Rank2(x) ==
    [i \in 1..Len(x) |->
        2 * Cardinality({j \in 1..Len(x) : x[j] < x[i]})
        + Cardinality({j \in 1..Len(x) : x[j] = x[i]}) + 1]

\* Pearson's r of two columns as num / sqrt(den2); NaN when a column has
\* no variance (also when fewer than two rows are left).
Pearson(x, y) ==
    LET n == Len(x)
        sxy == Sum([i \in 1..n |-> x[i] * y[i]])
        vx == n * SumSq(x) - Sum(x) * Sum(x)
        vy == n * SumSq(y) - Sum(y) * Sum(y)
    IN  IF vx * vy = 0 THEN None
        ELSE Some([num |-> n * sxy - Sum(x) * Sum(y), den2 |-> vx * vy])

CorrEntry(x, y, method) ==
    IF method = "spearman" THEN Pearson(Rank2(x), Rank2(y)) ELSE Pearson(x, y)

Corr(rows, params, method) ==
    [pq \in Range(params) \X Range(params) |->
        CorrEntry(Column(rows, pq[1]), Column(rows, pq[2]), method)]

(***************************************************************************)
(* The script as a state machine.  pc is "upload" until the file is        *)
(* loaded, "ready" when the sidebar waits for a selection, "shown" when a  *)
(* menu branch has run for the current selection, "rejected" when          *)
(* load_data returned None and "crashed" when loading or the set-up raised.*)
(* ran is the set of steps the current run executed, out what it showed.   *)
(***************************************************************************)

Out(kind, err, at) == [kind |-> kind, err |-> err, at |-> at]

NoArgs ==
    [menu |-> "", basin |-> "", lo |-> 0, hi |-> 0, param |-> "",
     stat |-> {}, viz |-> "", method |-> ""]

SetupSteps == {"load_data", "success", "menu", "setup"}

Init ==
    /\ file \in Files
    /\ pc = "upload"
    /\ df = None
    /\ args = NoArgs
    /\ filtered = None
    /\ ran = {}
    /\ out = Out("none", "", "")
    /\ results = None
    /\ corr = None

\* Lines 67-92: load_data, the success message, the sidebar menu and the
\* extraction of basins, years and parameters.
Load ==
    /\ pc = "upload"
    /\ LET r == LoadData(file)
       IN  IF r.status = "unsupported"
           THEN /\ pc' = "rejected"
                /\ df' = None
                /\ ran' = {"load_data"}
                /\ out' = Out("error", "Unsupported file format", "load_data")
           ELSE IF r.status = "KeyError"
           THEN /\ pc' = "crashed"
                /\ df' = None
                /\ ran' = {"load_data"}
                /\ out' = Out("exception", "KeyError", "load_data")
           ELSE IF ~file.hasBasin
           THEN /\ pc' = "crashed"
                /\ df' = r.df
                /\ ran' = {"load_data", "success", "menu"}
                /\ out' = Out("exception", "KeyError", "setup")
           ELSE /\ pc' = "ready"
                /\ df' = r.df
                /\ ran' = SetupSteps
                /\ out' = Out("success", "", "")
    /\ UNCHANGED <<file, args, filtered, results, corr>>

\* What the "Select Basin" selectbox can return: None without options.
BasinChoices(d) == IF Basins(d) = {} THEN {NA} ELSE Basins(d)

\* What the year slider can return: lo <= hi within the years of df.
YearRanges(d) ==
    IF Years(d) = {} THEN {}
    ELSE { yr \in (SetMin(Years(d))..SetMax(Years(d)))
                  \X (SetMin(Years(d))..SetMax(Years(d))) : yr[1] <= yr[2] }

\* years.min() of an empty array raises ValueError: the branch stops at
\* its slider, before the filter.
SliderFails(menu, basin) ==
    /\ pc = "ready"
    /\ Years(Val(df)) = {}
    /\ pc' = "shown"
    /\ args' = [NoArgs EXCEPT !.menu = menu, !.basin = basin]
    /\ out' = Out("exception", "ValueError", "slider")
    /\ UNCHANGED <<file, df, filtered, ran, results, corr>>

\* Mutant of Empty: the branch never takes the "no data" path.
EmptyNever(f) == FALSE

\* filtered.empty
Empty(f) == f.rows = << >>

\* Lines 133-149.
DescriptiveStatistics(basin, yr, param, stat) ==
    /\ pc = "ready"
    /\ Years(Val(df)) # {}
    /\ yr \in YearRanges(Val(df))
    /\ LET f == QueryFilter(Val(df), basin, yr[1], yr[2])
           a == Aggregate(f.rows, param, stat)
       IN  /\ filtered' = Some(f)
           /\ IF Empty(f)
              THEN /\ out' = Out("warning", "", "")
                   /\ ran' = ran \cup {"filter"}
                   /\ results' = None
              ELSE IF a.status = "ok"
              THEN /\ out' = Out("table", "", "")
                   /\ ran' = ran \cup {"filter", "aggregate", "dataframe"}
                   /\ results' = Some(a.table)
              ELSE /\ out' = Out("exception", a.status, "aggregate")
                   /\ ran' = ran \cup {"filter", "aggregate"}
                   /\ results' = None
    /\ pc' = "shown"
    /\ args' = [NoArgs EXCEPT !.menu = "Descriptive Statistics",
                              !.basin = basin, !.lo = yr[1], !.hi = yr[2],
                              !.param = param, !.stat = stat]
    /\ UNCHANGED <<file, df, corr>>

VizTypes == {"Bar Chart", "Scatter Plot", "Box Plot", "Line Graph"}

\* Line 166: the Year column of the filtered copy becomes an integer column.
CastYear(f) == Frame(f.rows, "int")

\* Mutant of DfAfterCast: the assignment writes through to df.
DfCastThrough(d, f) == Frame(d.rows, "int")

\* What line 166 leaves in df: filtered is a copy made by the boolean
\* indexing of lines 162-163, so the assignment does not reach df.
DfAfterCast(d, f) == d

\* Lines 154-198.
Visualizations(basin, yr, param, viz) ==
    /\ pc = "ready"
    /\ Years(Val(df)) # {}
    /\ yr \in YearRanges(Val(df))
    /\ LET f == QueryFilter(Val(df), basin, yr[1], yr[2])
       IN  IF Empty(f)
           THEN /\ filtered' = Some(f)
                /\ out' = Out("warning", "", "")
                /\ ran' = ran \cup {"filter"}
                /\ df' = df
           ELSE /\ filtered' = Some(CastYear(f))
                /\ df' = Some(DfAfterCast(Val(df), f))
                /\ out' = Out("chart", "", "")
                /\ ran' = ran \cup {"filter", "astype", "plot"}
                          \cup (IF viz = "Bar Chart" THEN {"aggregate"} ELSE {})
    /\ pc' = "shown"
    /\ args' = [NoArgs EXCEPT !.menu = "Visualizations",
                              !.basin = basin, !.lo = yr[1], !.hi = yr[2],
                              !.param = param, !.viz = viz]
    /\ UNCHANGED <<file, results, corr>>

CorrMethods == {"pearson", "spearman"}

\* Lines 203-235.
CorrelationAnalysis(basin, yr, method) ==
    /\ pc = "ready"
    /\ Years(Val(df)) # {}
    /\ yr \in YearRanges(Val(df))
    /\ LET f == QueryFilter(Val(df), basin, yr[1], yr[2])
           corr_df == DropNa(f.rows, Parameters(file))
       IN  /\ filtered' = Some(f)
           /\ IF Empty(f)
              THEN /\ out' = Out("warning", "", "")
                   /\ ran' = ran \cup {"filter"}
                   /\ corr' = None
              ELSE /\ out' = Out("matrix", "", "")
                   /\ ran' = ran \cup {"filter", "dropna", "corr", "dataframe",
                                       "heatmap"}
                   /\ corr' = Some(Corr(corr_df, Parameters(file), method))
    /\ pc' = "shown"
    /\ args' = [NoArgs EXCEPT !.menu = "Correlation Analysis",
                              !.basin = basin, !.lo = yr[1], !.hi = yr[2],
                              !.method = method]
    /\ UNCHANGED <<file, df, results>>

Menus == {"Descriptive Statistics", "Visualizations", "Correlation Analysis"}

\* One run of the script for each selection the sidebar can hold.
SliderFailure ==
    /\ pc = "ready"
    /\ \E basin \in BasinChoices(Val(df)), menu \in Menus :
          SliderFails(menu, basin)

Statistics ==
    /\ pc = "ready"
    /\ \E basin \in BasinChoices(Val(df)), yr \in YearRanges(Val(df)),
          param \in Range(Parameters(file)), stat \in StatChoices :
          DescriptiveStatistics(basin, yr, param, stat)

Visualize ==
    /\ pc = "ready"
    /\ \E basin \in BasinChoices(Val(df)), yr \in YearRanges(Val(df)),
          param \in Range(Parameters(file)), viz \in VizTypes :
          Visualizations(basin, yr, param, viz)

Correlate ==
    /\ pc = "ready"
    /\ \E basin \in BasinChoices(Val(df)), yr \in YearRanges(Val(df)),
          method \in CorrMethods :
          CorrelationAnalysis(basin, yr, method)

\* The next interaction: the script runs again from the cached data
\* frame; the locals of the previous run are gone.
Rerun ==
    /\ pc = "shown"
    /\ pc' = "ready"
    /\ args' = NoArgs
    /\ filtered' = None
    /\ ran' = SetupSteps
    /\ out' = Out("success", "", "")
    /\ results' = None
    /\ corr' = None
    /\ UNCHANGED <<file, df>>

Next ==
    \/ Load
    \/ SliderFailure
    \/ Statistics
    \/ Visualize
    \/ Correlate
    \/ Rerun

Spec == Init /\ [][Next]_vars

(***************************************************************************)
(* Properties                                                              *)
(***************************************************************************)

Loaded == NotNull(df)

Filtered == NotNull(filtered)

Rows == Val(filtered).rows

\* The selection of the query filter, stated on one record.
Selected(r) ==
    /\ r.Basin = args.basin
    /\ NotNull(r.Year)
    /\ args.lo <= Val(r.Year)
    /\ Val(r.Year) <= args.hi

\* C1: whenever the filter has run, its result holds only records of the
\* data frame whose basin is the chosen one and whose year is non-null and
\* within [lo, hi], and every such record of the data frame is in the
\* result exactly once; a record with a null year is never in it.
C1_FilterExact ==
    Filtered =>
        /\ \A i \in 1..Len(Rows) :
              Rows[i] \in Range(Val(df).rows) /\ Selected(Rows[i])
        /\ \A j \in 1..Len(Val(df).rows) :
              Selected(Val(df).rows[j]) =>
                  Cardinality({i \in 1..Len(Rows) : Rows[i].idx = j}) = 1
        /\ \A i \in 1..Len(Rows) : NotNull(Rows[i].Year)

\* A query that returned one record and left out a record of the chosen
\* basin whose year is null.
C1_Witness ==
    /\ Filtered
    /\ Len(Rows) = 1
    /\ \E r \in Range(Val(df).rows) : r.Basin = args.basin /\ IsNull(r.Year)

ComputeSteps == {"aggregate", "dropna", "corr", "dataframe", "plot", "heatmap", "astype"}

\* C2: whenever the filter yields an empty subset, whatever the menu
\* option, the run ends with the "no data" warning: nothing is aggregated,
\* correlated or plotted, no table or matrix is produced, nothing is raised.
C2_EmptyIsNoData ==
    (Filtered /\ Rows = << >>) =>
        /\ args.menu \in Menus
        /\ out = Out("warning", "", "")
        /\ ran \cap ComputeSteps = {}
        /\ results = None
        /\ corr = None

\* A Correlation Analysis query on a basin that has no record in the
\* chosen years.
C2_Witness ==
    /\ Filtered
    /\ Rows = << >>
    /\ args.menu = "Correlation Analysis"
    /\ args.basin \in Basins(Val(df))

Aggregated ==
    /\ args.menu = "Descriptive Statistics"
    /\ Filtered
    /\ Rows # << >>

\* The recognized set as C3 states it.
C3_ClaimedStatistics ==
    {"mean", "median", "min", "max", "standard_deviation", "count"}

C4_NoStatisticsEmptyTable ==
    (Aggregated /\ args.stat = {}) =>
        /\ out.kind = "table"
        /\ results = Some(<< >>)

\* An aggregation of two records with nothing selected.
C4_Witness ==
    /\ Aggregated
    /\ args.stat = {}
    /\ Len(Rows) >= 2
    /\ NotNull(results)

CompleteRows == DropNa(Rows, Parameters(file))

\* C5 as stated: a correlation on a non-empty subset with fewer than two
\* complete rows fails, produces no matrix, and is not the "no data" outcome.
C5_InsufficientDataFails ==
    (/\ args.menu = "Correlation Analysis"
     /\ Filtered
     /\ Rows # << >>
     /\ Len(CompleteRows) < 2) =>
        /\ out.kind = "exception"
        /\ corr = None

\* C6 as stated: once a table without a Basin column has been submitted,
\* the load step has failed: there is no data frame and neither the menu
\* nor any later step has run.
C6_MissingBasinAbortsLoad ==
    (pc # "upload" /\ ~file.hasBasin) =>
        /\ df = None
        /\ out.kind \in {"exception", "error"}
        /\ out.at = "load_data"
        /\ ran \subseteq {"load_data"}

Tabled ==
    /\ Aggregated
    /\ NotNull(results)
    /\ args.stat # {}

Table == Val(results)

\* The place of the first record of the filtered subset with this season.
FirstSeen(season) ==
    CHOOSE i \in 1..Len(Rows) :
        /\ Rows[i].Season = season
        /\ \A j \in 1..(i - 1) : Rows[j].Season # season

\* C7 as stated: the table is ordered by year and, within a year, by the
\* place at which each season first appears in the filtered subset.
C7_FirstAppearanceOrder ==
    Tabled =>
        \A i, j \in 1..Len(Table) :
            i < j =>
                \/ Table[i].Year < Table[j].Year
                \/ /\ Table[i].Year = Table[j].Year
                   /\ FirstSeen(Table[i].Season) < FirstSeen(Table[j].Season)

\* C7 as amended: the table is ordered ascending by year and, within a
\* year, ascending by the season's name (by code points), whatever the
\* order of the records.
C7_SortedOrder ==
    Tabled =>
        \A i, j \in 1..Len(Table) :
            i < j =>
                \/ Table[i].Year < Table[j].Year
                \/ /\ Table[i].Year = Table[j].Year
                   /\ StrLess(Table[i].Season, Table[j].Season)

\* Pre-Monsoon comes first in the subset and second in the table.
C7_Witness ==
    /\ Tabled
    /\ Len(Rows) = 2
    /\ Rows[1].Season = "Pre-Monsoon"
    /\ Rows[2].Season = "Post-Monsoon"
    /\ Len(Table) = 2
    /\ Table[1].Season = "Post-Monsoon"
    /\ Table[2].Season = "Pre-Monsoon"

\* The records of the filtered subset in the group (y, s).
Members(y, s) ==
    { i \in 1..Len(Rows) : Val(Rows[i].Year) = y /\ Rows[i].Season = s }

\* C8: the table has one row for every (year, season) pair of the filtered
\* subset (records without a season belong to no group), also when all its
\* values of the parameter are null, and the count of a row is the number
\* of non-null values of the parameter among the records of its group.
C8_CountNonNull ==
    (Tabled /\ "count" \in args.stat) =>
        /\ \A i \in 1..Len(Rows) :
              Rows[i].Season # NA =>
                  Cardinality({k \in 1..Len(Table) :
                      /\ Table[k].Year = Val(Rows[i].Year)
                      /\ Table[k].Season = Rows[i].Season}) = 1
        /\ \A k \in 1..Len(Table) :
              /\ Members(Table[k].Year, Table[k].Season) # {}
              /\ Table[k].cols["count"] =
                     Cardinality({i \in Members(Table[k].Year, Table[k].Season) :
                                     NotNull(Get(Rows[i], args.param))})

\* A table of two records with a group whose values are all null: count 0.
C8_Witness ==
    /\ Tabled
    /\ "count" \in args.stat
    /\ \E k \in 1..Len(Table) : Table[k].cols["count"] = 0
    /\ Len(Rows) = 2

\* Two equal values of one group are counted twice.
C8_CountsDuplicates ==
    /\ Tabled
    /\ "count" \in args.stat
    /\ Len(Table) = 1
    /\ Table[1].cols["count"] = 2
    /\ Rows[1].EC = Rows[2].EC

IsCalendarDate(cell) ==
    /\ cell.text = "ymd"
    /\ cell.m >= 1
    /\ cell.m <= 12
    /\ cell.d >= 1
    /\ cell.d <= DaysInMonth(cell.y, cell.m)

\* C9: once load_data has returned a data frame, it has one record per row
\* of the file; in each, Year is null exactly if Date is null and is the
\* calendar year of Date otherwise; Date is the date the cell spells, and
\* null for an empty cell and for a text that is no calendar date.
C9_YearFromDate ==
    Loaded =>
        /\ Len(Val(df).rows) = Len(file.rows)
        /\ \A i \in 1..Len(file.rows) :
              LET r == Val(df).rows[i]
                  cell == file.rows[i].Date
              IN  /\ IsNull(r.Year) <=> IsNull(r.Date)
                  /\ NotNull(r.Date) => Val(r.Year) = Val(r.Date).y
                  /\ IsCalendarDate(cell) =>
                         /\ NotNull(r.Date)
                         /\ Val(r.Date) = [y |-> cell.y, m |-> cell.m, d |-> cell.d]
                  /\ ~IsCalendarDate(cell) => IsNull(r.Date)

\* A loaded file of two rows, one with a date and one with a text of the
\* form YYYY-MM-DD that is no calendar date, which got a null Year.
C9_Witness ==
    /\ Loaded
    /\ Len(file.rows) = 2
    /\ file.rows[1].Date.text = "ymd"
    /\ IsNull(Val(df).rows[1].Year)
    /\ NotNull(Val(df).rows[2].Year)

\* C10: at any point of the session the data frame is the one load_data
\* returned for the file, and the filter result of the current query is
\* the one the filter gives on that data frame for the same arguments.
C10_DatasetUnchanged ==
    Loaded =>
        /\ df = LoadData(file).df
        /\ Filtered =>
              Rows = QueryFilter(Val(LoadData(file).df),
                                 args.basin, args.lo, args.hi).rows

\* A Visualizations query has cast the Year column of a non-empty filtered
\* subset to integers while the Year column of the data frame is float.
C10_Witness ==
    /\ Loaded
    /\ args.menu = "Visualizations"
    /\ Filtered
    /\ Rows # << >>
    /\ Val(filtered).yearDtype = "int"
    /\ Val(df).yearDtype = "float"

====
